---- MODULE Spec2Model ----
(***************************************************************************)
(* The PDF-to-Markdown job pipeline of src/pdf_to_md/main.py: the in-memory *)
(* job store, the upload handler, the background processing task with its  *)
(* per-page extraction tasks, and the two query handlers.                  *)
(*                                                                         *)
(* The service runs on one asyncio event loop: the code between two awaits *)
(* runs without interleaving, so each action below is one such segment.    *)
(* Strings that the code trims, joins or tests for blankness are sequences *)
(* of one-character strings; messages that are only stored are strings.    *)
(*                                                                         *)
(* The question-and-answer file tools of src/mcp_tools/server.py work on   *)
(* the file system; none of them awaits, so each call is one action.       *)
(***************************************************************************)
EXTENDS Integers, Sequences, FiniteSets, TLC

\* ---------------------------------------------------------------- bounds
MaxJobs == 2        \* submissions a client makes in the multi-job runs
MaxPages == 2       \* pages of the largest document in the pipeline runs
MaxClock == 1       \* largest reading of the wall clock
MaxPairs == 3       \* most pairs a question-and-answer file is grown to

\* ------------------------------------------------------- program constants
MAX_WORKERS == 10

PENDING == "PENDING"
PROCESSING == "PROCESSING"
SUCCESS == "SUCCESS"
FAILED == "FAILED"
JobStatus == {PENDING, PROCESSING, SUCCESS, FAILED}
Terminal == {SUCCESS, FAILED}

\* Optional values: None is the empty sequence, a present value v is <<v>>.
None == <<>>
Some(v) == <<v>>

\* ----------------------------------------------------------------- strings
NL == "\n"
SP == " "
Whitespace == {SP, NL, "\t"}

\* The default of the page_prefix and page_suffix form fields, "\n---\n".
DefaultDelim == <<NL, "-", "-", "-", NL>>

RECURSIVE LStrip(_)
LStrip(s) == IF s # <<>> /\ Head(s) \in Whitespace THEN LStrip(Tail(s)) ELSE s

RECURSIVE RStrip(_)
RStrip(s) ==
    IF s # <<>> /\ s[Len(s)] \in Whitespace
    THEN RStrip(SubSeq(s, 1, Len(s) - 1))
    ELSE s

\* str.strip()
StripLeftOnly(s) == LStrip(s)
Strip(s) == RStrip(LStrip(s))

\* str(n) for a natural number
Digit(d) == <<"0", "1", "2", "3", "4", "5", "6", "7", "8", "9">>[d + 1]
RECURSIVE Str(_)
Str(n) == IF n < 10 THEN <<Digit(n)>> ELSE Str(n \div 10) \o <<Digit(n % 10)>>

\* "\n".join(parts)
RECURSIVE Join(_)
Join(parts) ==
    IF parts = <<>> THEN <<>>
    ELSE IF Len(parts) = 1 THEN parts[1]
    ELSE parts[1] \o <<NL>> \o Join(Tail(parts))

\* the literal "[Error processing page "
ErrorPageLit ==
    <<"[", "E", "r", "r", "o", "r", SP, "p", "r", "o", "c", "e", "s", "s",
      "i", "n", "g", SP, "p", "a", "g", "e", SP>>

\* ------------------------------------------------------------ page pipeline
\* A remote answer is Some(text), or None when the call raised.
\* _process_page with page_num 0-based: the value the page task returns.
ProcessPageZeroBased(page_num, page_prefix, page_suffix, answer) ==
    IF answer # None
    THEN page_prefix \o Strip(answer[1]) \o page_suffix
    ELSE page_prefix \o ErrorPageLit \o Str(page_num) \o <<"]">> \o page_suffix
ProcessPage(page_num, page_prefix, page_suffix, answer) ==
    IF answer # None
    THEN page_prefix \o Strip(answer[1]) \o page_suffix
    ELSE page_prefix \o ErrorPageLit \o Str(page_num + 1) \o <<"]">> \o page_suffix

VARIABLES
    jobs,       \* the jobs dict: job id -> job record
    task,       \* job id -> position of its process_pdf_background task
    pages,      \* job id -> the page tasks process_pdf created, in order
    raster,     \* job id -> number of convert_from_bytes calls made
    clock,      \* datetime.utcnow()
    resp,       \* the last HTTP response sent
    seen,       \* job id -> the status the last query on it reported
    completed,  \* job id -> the page indexes in the order their tasks ended
    document,   \* job id -> what process_pdf returned, once it has
    env,        \* the client and the remote service
    files,      \* the file system: path -> what the file holds
    ret,        \* what the last tool call returned
    created     \* path -> what create_qa_file was given, and the non-empty
                \* content lists written to the file since, in call order

\* the state of the parsing service and the state of the study tools
service == <<jobs, task, pages, raster, clock, resp, seen, completed, document, env>>
tools == <<files, ret, created>>
vars == <<jobs, task, pages, raster, clock, resp, seen, completed, document, env,
          files, ret, created>>

\* -------------------------------------------------------------- job records
\* dict.get(key): None when the key is absent
Get(job, key) == IF key \in DOMAIN job THEN job[key] ELSE None

\* del job[key]
DelKey(job, key) == [k \in DOMAIN job \ {key} |-> job[k]]

\* the bytes of an upload: empty or not, a readable PDF or not, its page count
EmptyBytes == [empty |-> TRUE, valid |-> FALSE, npages |-> 0]
Pdf(n) == [empty |-> FALSE, valid |-> TRUE, npages |-> n]
Junk == [empty |-> FALSE, valid |-> FALSE, npages |-> 0]

\* job_data of upload_pdf
NewJobProcessing(job_id, now, file_content, page_prefix, page_suffix) ==
    [id |-> job_id, status |-> PROCESSING, created_at |-> now, updated_at |-> now,
     file_content |-> file_content,
     page_prefix |-> page_prefix, page_suffix |-> page_suffix,
     result |-> None, error |-> None]
NewJob(job_id, now, file_content, page_prefix, page_suffix) ==
    [id |-> job_id, status |-> PENDING, created_at |-> now, updated_at |-> now,
     file_content |-> file_content,
     page_prefix |-> page_prefix, page_suffix |-> page_suffix,
     result |-> None, error |-> None]

\* process_pdf_background: "Update job status to processing"
MarkProcessingNoStamp(job, now) == [job EXCEPT !.status = PROCESSING]
MarkProcessing(job, now) ==
    [job EXCEPT !.status = PROCESSING, !.updated_at = now]

\* process_pdf_background: the clean-up and "Update job with result"
MarkSuccessStatusOnly(job, markdown_content, now) ==
    [DelKey(job, "file_content") EXCEPT !.status = SUCCESS, !.updated_at = now]
MarkSuccess(job, markdown_content, now) ==
    [DelKey(job, "file_content") EXCEPT
        !.status = SUCCESS,
        !.result = Some([markdown |-> markdown_content]),
        !.updated_at = now]

\* process_pdf_background: the outer except, "Update job with error"
MarkFailedNoCause(job, cause, now) ==
    [job EXCEPT !.status = FAILED, !.error = Some("Error processing PDF: "),
                !.updated_at = now]
MarkFailedFillResult(job, cause, now) ==
    LET error_msg == "Error processing PDF: " \o cause
    IN  [job EXCEPT !.status = FAILED, !.error = Some(error_msg),
                    !.updated_at = now,
                    !.result = IF Get(job, "result") = None
                               THEN Some([error |-> error_msg]) ELSE @]
MarkFailed(job, cause, now) ==
    LET error_msg == "Error processing PDF: " \o cause
        failed == [job EXCEPT !.status = FAILED, !.error = Some(error_msg),
                              !.updated_at = now]
    IN  IF "result" \notin DOMAIN failed
        THEN [k \in DOMAIN failed \cup {"result"} |->
                 IF k = "result" THEN Some([error |-> error_msg]) ELSE failed[k]]
        ELSE failed

\* `not markdown_content or not markdown_content.strip()`
IsEmptyContentNoStrip(markdown_content) == markdown_content = <<>>
IsEmptyContent(markdown_content) ==
    markdown_content = <<>> \/ Strip(markdown_content) = <<>>

\* uuid.uuid4(): an identifier no job has had
IdFromTime == clock + 1
NewId == Cardinality(DOMAIN jobs) + 1
\* an identifier that is never handed out
UnknownId == 0

\* one page task of process_pdf; answer is the remote's reply once it came,
\* calls the number of extract_text_from_image calls made for the page
NewPage == [st |-> "created", answer |-> None, out |-> <<>>, calls |-> 0]

\* convert_from_bytes(contents, poppler_path): the images, or None on failure.
\* poppler is where the toolchain is installed on this host.
ConvertFromBytes(contents, poppler_path, poppler) ==
    IF contents.valid /\ poppler = poppler_path
    THEN Some([i \in 1..contents.npages |-> NewPage])
    ELSE None

\* ------------------------------------------------------------------ handlers
\* upload_pdf: `if not file_content`
NeverEmpty(file_content) == FALSE
IsEmptyUpload(file_content) == file_content.empty

\* where asyncio.create_task leaves the background task when upload_pdf
\* returns: scheduled, not yet run
AlreadyRunning == "reading"
Scheduled == "scheduled"

\* POST /api/v1/parsing/upload.  FastAPI has the upload spooled before the
\* handler runs, so file.read() completes within the same segment.
upload_pdf(file_content, page_prefix, page_suffix) ==
    /\ env.uploads > 0
    /\ env' = [env EXCEPT !.uploads = @ - 1]
    /\ LET job_id == NewId
           now == clock
       IN  IF IsEmptyUpload(file_content)
           THEN \* ValueError before the job is stored: `job_id in jobs` is false
                /\ resp' = [op |-> "upload", code |-> 500, id |-> job_id,
                            detail |-> "Error processing file: Uploaded file is empty"]
                /\ UNCHANGED <<jobs, task, pages, raster, seen, completed, document>>
           ELSE /\ jobs' = (job_id :> NewJob(job_id, now, file_content,
                                             page_prefix, page_suffix)) @@ jobs
                /\ task' = (job_id :> Scheduled) @@ task
                /\ pages' = (job_id :> <<>>) @@ pages
                /\ raster' = (job_id :> 0) @@ raster
                /\ seen' = (job_id :> "unseen") @@ seen
                /\ completed' = (job_id :> <<>>) @@ completed
                /\ document' = (job_id :> None) @@ document
                /\ resp' = [op |-> "upload", code |-> 200, id |-> job_id,
                            body |-> [id |-> job_id, status |-> PROCESSING,
                                      created_at |-> now, updated_at |-> now]]
    /\ UNCHANGED <<clock, tools>>

\* The except branch of process_pdf_background, which also ends the task.
Fail(job_id, cause) ==
    /\ jobs' = [jobs EXCEPT ![job_id] = MarkFailed(@, cause, clock)]
    /\ task' = [task EXCEPT ![job_id] = "done"]

\* process_pdf_background up to the first await (file.read() in process_pdf)
StartGuardRerun(job_id) == task[job_id] \in {"scheduled", "done"}
StartGuard(job_id) == task[job_id] = "scheduled"

process_pdf_background(job_id) ==
    /\ job_id \in DOMAIN jobs
    /\ StartGuard(job_id)
    /\ LET job == MarkProcessing(jobs[job_id], clock)
       IN  IF "file_content" \notin DOMAIN job \/ job.file_content.empty
           THEN /\ jobs' = [jobs EXCEPT ![job_id] =
                              MarkFailed(job, "No file content found in job data",
                                         clock)]
                /\ task' = [task EXCEPT ![job_id] = "done"]
           ELSE /\ jobs' = [jobs EXCEPT ![job_id] = job]
                /\ task' = [task EXCEPT ![job_id] = "reading"]
    /\ UNCHANGED <<pages, raster, clock, resp, seen, completed, document, env, tools>>

\* asyncio.gather(*tasks): the results in the order of the tasks
GatherAsCompleted(tasks, order) == [k \in 1..Len(order) |-> tasks[order[k]].out]
Gather(tasks, order) == [i \in 1..Len(tasks) |-> tasks[i].out]

\* gather resumes the awaiting task when every page task has ended
AllAnswered(tasks) ==
    \A i \in 1..Len(tasks) : tasks[i].st = "done" /\ tasks[i].answer # None
AllDone(tasks) == \A i \in 1..Len(tasks) : tasks[i].st = "done"

\* process_pdf from the join on, and what process_pdf_background does with
\* the returned document
Complete(job_id, markdown_pages) ==
    LET markdown_content == Join(markdown_pages)
    IN  /\ document' = [document EXCEPT ![job_id] = Some(markdown_content)]
        /\ IF IsEmptyContent(markdown_content)
           THEN Fail(job_id, "PDF processing returned empty content")
           ELSE /\ jobs' = [jobs EXCEPT ![job_id] =
                               MarkSuccess(@, markdown_content, clock)]
                /\ task' = [task EXCEPT ![job_id] = "done"]

\* the convert_from_bytes calls process_pdf makes: one with the explicit
\* poppler path and, when that one raised, one more without it
ConversionCallsRetry(first) == IF first # None THEN 1 ELSE 3
ConversionCalls(first) == IF first # None THEN 1 ELSE 2

\* process_pdf after file.read(): both conversion attempts and the fan-out
process_pdf(job_id) ==
    /\ job_id \in DOMAIN jobs
    /\ task[job_id] = "reading"
    /\ \E poppler \in env.poppler :
         LET contents == jobs[job_id].file_content
             first == ConvertFromBytes(contents, "/opt/homebrew/bin", poppler)
             second == ConvertFromBytes(contents, "system", poppler)
             images == IF first # None THEN first ELSE second
         IN  /\ raster' = [raster EXCEPT ![job_id] = @ + ConversionCalls(first)]
             /\ IF images = None
                THEN /\ Fail(job_id, "Error converting PDF to images: conversion failed")
                     /\ UNCHANGED <<pages, document>>
                ELSE IF Len(images[1]) = 0
                THEN \* gather() of no tasks is already done
                     /\ Complete(job_id, Gather(images[1], <<>>))
                     /\ UNCHANGED pages
                ELSE /\ pages' = [pages EXCEPT ![job_id] = images[1]]
                     /\ task' = [task EXCEPT ![job_id] = "gathering"]
                     /\ UNCHANGED <<jobs, document>>
    /\ UNCHANGED <<clock, resp, seen, completed, env, tools>>

\* the event loop runs the page tasks in the order they were created
NextToStart(job_id) ==
    {i \in 1..Len(pages[job_id]) :
        /\ pages[job_id][i].st = "created"
        /\ \A k \in 1..(i - 1) : pages[job_id][k].st # "created"}

\* _process_page up to the await of extract_text_from_image
PageStart(job_id, i) ==
    /\ job_id \in DOMAIN jobs
    /\ task[job_id] = "gathering"
    /\ i \in NextToStart(job_id)
    /\ pages' = [pages EXCEPT ![job_id][i].st = "inflight",
                              ![job_id][i].calls = @ + 1]
    /\ UNCHANGED <<jobs, task, raster, clock, resp, seen, completed, document, env, tools>>

\* the state of a page task once its call was answered: _process_page
\* returns, with the text or with the placeholder
RetryOnFailure(answer) == IF answer = None THEN "created" ELSE "done"
AfterAnswer(answer) == "done"

\* the remote answers (or the call raises) and _process_page returns
PageReturn(job_id, i, answer) ==
    /\ job_id \in DOMAIN jobs
    /\ i \in 1..Len(pages[job_id])
    /\ pages[job_id][i].st = "inflight"
    /\ answer \in env.answers
    /\ pages' = [pages EXCEPT ![job_id][i] =
                    [st |-> AfterAnswer(answer), answer |-> answer,
                     out |-> ProcessPage(i - 1, jobs[job_id].page_prefix,
                                         jobs[job_id].page_suffix, answer),
                     calls |-> @.calls]]
    /\ completed' = [completed EXCEPT ![job_id] = Append(@, i)]
    /\ UNCHANGED <<jobs, task, raster, clock, resp, seen, document, env, tools>>

\* the remote will never answer this call; nothing in the code ends the wait
PageHang(job_id, i) ==
    /\ job_id \in DOMAIN jobs
    /\ i \in 1..Len(pages[job_id])
    /\ env.hangs
    /\ pages[job_id][i].st = "inflight"
    /\ pages' = [pages EXCEPT ![job_id][i].st = "hung"]
    /\ UNCHANGED <<jobs, task, raster, clock, resp, seen, completed, document, env, tools>>

\* process_pdf resumes from the gather
GatherDone(job_id) ==
    /\ job_id \in DOMAIN jobs
    /\ task[job_id] = "gathering"
    /\ AllDone(pages[job_id])
    /\ Complete(job_id, Gather(pages[job_id], completed[job_id]))
    /\ UNCHANGED <<pages, raster, clock, resp, seen, completed, env, tools>>

\* the jobs dict after a query handler has looked job_id up: the handlers
\* only test membership and read
StoreAfterQueryPop(job_id) == [k \in DOMAIN jobs \ {job_id} |-> jobs[k]]
StoreAfterQuery(job_id) == jobs

\* response_data of get_job_status
JobResponseNoError(job) ==
    [id |-> job.id, status |-> job.status,
     created_at |-> job.created_at, updated_at |-> job.updated_at,
     result |-> Get(job, "result"), error |-> None]
JobResponse(job) ==
    [id |-> job.id, status |-> job.status,
     created_at |-> job.created_at, updated_at |-> job.updated_at,
     result |-> Get(job, "result"), error |-> Get(job, "error")]

\* error_msg of get_job_result_markdown for a job that is not SUCCESS
StatusDetailNoError(job) == "Job status is " \o job.status \o ". "
StatusDetail(job) ==
    "Job status is " \o job.status \o ". "
        \o (IF Get(job, "error") # None /\ job.error[1] # ""
            THEN "Error: " \o job.error[1] ELSE "")

\* GET /api/v1/parsing/job/{job_id}
get_job_status(job_id) ==
    /\ IF job_id \notin DOMAIN jobs
       THEN /\ resp' = [op |-> "status", code |-> 404, id |-> job_id,
                        detail |-> "Job not found"]
            /\ UNCHANGED seen
       ELSE LET job == jobs[job_id]
            IN  /\ resp' = [op |-> "status", code |-> 200, id |-> job_id,
                            body |-> JobResponse(job)]
                /\ seen' = [seen EXCEPT ![job_id] = job.status]
    /\ jobs' = StoreAfterQuery(job_id)
    /\ UNCHANGED <<task, pages, raster, clock, completed, document, env, tools>>

\* GET /api/v1/parsing/job/{job_id}/result/markdown
get_job_result_markdown(job_id) ==
    /\ IF job_id \notin DOMAIN jobs
       THEN /\ resp' = [op |-> "markdown", code |-> 404, id |-> job_id,
                        detail |-> "Job not found"]
            /\ UNCHANGED seen
       ELSE LET job == jobs[job_id]
            IN  /\ seen' = [seen EXCEPT ![job_id] = job.status]
                /\ IF job.status # SUCCESS
                   THEN resp' = [op |-> "markdown", code |-> 400, id |-> job_id,
                                 status |-> job.status,
                                 error |-> Get(job, "error"),
                                 detail |-> StatusDetail(job)]
                   ELSE IF Get(job, "result") = None
                           \/ Get(Get(job, "result")[1], "markdown") = <<>>
                   THEN resp' = [op |-> "markdown", code |-> 500, id |-> job_id,
                                 detail |-> "Job completed but no markdown result found"]
                   ELSE resp' = [op |-> "markdown", code |-> 200, id |-> job_id,
                                 body |-> job.result[1].markdown]
    /\ jobs' = StoreAfterQuery(job_id)
    /\ UNCHANGED <<task, pages, raster, clock, completed, document, env, tools>>

\* time passes
Tick ==
    /\ clock < env.ticks
    /\ clock' = clock + 1
    /\ UNCHANGED <<jobs, task, pages, raster, resp, seen, completed, document, env, tools>>

\* --------------------------------------------------------- study tools: files
\* A path is the sequence of its components, "/" first when it is absolute.
\* the working directory of the server process
Cwd == <<"/", "srv">>

\* os.path.abspath(path): also the file a relative path names when opened
RECURSIVE Abspath(_)
Abspath(path) ==
    IF path # <<>> /\ Head(path) = "/" THEN path
    ELSE IF path # <<>> /\ Head(path) = "." THEN Abspath(Tail(path))
    ELSE Cwd \o path

\* os.path.dirname(path)
Dirname(path) == SubSeq(path, 1, Len(path) - 1)

\* os.path.join(directory, name) for a name without separators
PathJoin(directory, name) == directory \o <<name>>

\* What a file holds: the text json.dump(s) wrote for a dict, in the layout
\* it was given, or some other text.
Dumps(data, layout) == [kind |-> "json", layout |-> layout, data |-> data]
RawText(chars) == [kind |-> "text", chars |-> chars]

\* json.loads(text): the dict, or None where it raises JSONDecodeError
Loads(text) == IF text.kind = "json" THEN Some(text.data) ELSE None

\* the value a tool returned before any tool was called
NoReturn == [tool |-> "none"]

\* `not value` for the value a dict holds under key: absent, None or empty
Falsy(dict, key) == key \notin DOMAIN dict \/ dict[key] = ""

\* ------------------------------------------------------ study tools: handlers
\* create_qa_file(title, icon, job_id)
create_qa_file(title, icon, job_id) ==
    LET output_filename == "output_qa_file_" \o title \o "_" \o job_id \o ".json"
        full_path == Abspath(<<output_filename>>)
    IN  /\ files' = (full_path :>
                        Dumps([title |-> title, icon |-> icon, job_id |-> job_id,
                               qa_pairs |-> <<>>], "compact")) @@ files
        /\ ret' = [tool |-> "create_qa_file",
                   message |-> "QA file {output_filename} created. Job id: {job_id}",
                   file_path |-> full_path]
        /\ created' = (full_path :>
                          [title |-> title, icon |-> icon, job_id |-> job_id,
                           appended |-> <<>>]) @@ created
        /\ UNCHANGED service

\* write_to_qa_file: data_to_write before the new content is appended
LoadedData(file_path) ==
    LET fresh == [qa_pairs |-> <<>>]
        name == Abspath(file_path)
    IN  IF name \notin DOMAIN files THEN fresh               \* FileNotFoundError
        ELSE IF files[name].kind = "text" /\ Strip(files[name].chars) = <<>>
        THEN fresh                                            \* empty or blank
        ELSE IF Loads(files[name]) = None THEN fresh          \* JSONDecodeError
        ELSE IF "qa_pairs" \in DOMAIN Loads(files[name])[1]
        THEN Loads(files[name])[1]
        ELSE fresh

\* data_to_write["qa_pairs"].extend(content)
ExtendFront(qa_pairs, content) == content \o qa_pairs
Extend(qa_pairs, content) == qa_pairs \o content

\* write_to_qa_file(file_path, content).  The disk takes every write, so the
\* IOError branch is not taken.
write_to_qa_file(file_path, content) ==
    LET data_to_write == LoadedData(file_path)
        written == [data_to_write EXCEPT !.qa_pairs = Extend(@, content)]
        name == Abspath(file_path)
    IN  /\ Len(written.qa_pairs) <= MaxPairs
        /\ files' = (name :> Dumps(written, "indent=4")) @@ files
        /\ ret' = [tool |-> "write_to_qa_file",
                   message |-> "Content written to QA file.",
                   file_path |-> file_path]
        /\ created' = IF name \in DOMAIN created /\ content # <<>>
                      THEN [created EXCEPT ![name].appended = Append(@, content)]
                      ELSE created
        /\ UNCHANGED service

\* dict.get(key, default) for a key whose values are strings or lists
GetOr(dict, key, default) == IF key \in DOMAIN dict THEN dict[key] ELSE default

\* finish_qa_file: `if question and answer`
HasQuestion(pair) == ~Falsy(pair, "question")
ValidPair(pair) == ~Falsy(pair, "question") /\ ~Falsy(pair, "answer")

\* the loop of finish_qa_file from pair i (0-based) on: the index of every
\* pair a note was added for, which genanki.guid_for names the note by
RECURSIVE AddNotes(_, _)
AddNotes(qa_pairs, i) ==
    IF i >= Len(qa_pairs) THEN <<>>
    ELSE (IF ValidPair(qa_pairs[i + 1]) THEN <<i>> ELSE <<>>)
             \o AddNotes(qa_pairs, i + 1)

\* f"{icon} {title}".strip(), or job_id when that is empty; icon and title
\* themselves have no whitespace at their ends
DeckTitle(icon, title, job_id) ==
    IF icon = "" /\ title = "" THEN job_id
    ELSE IF icon = "" THEN title
    ELSE IF title = "" THEN icon
    ELSE icon \o " " \o title

\* the path finish_qa_file writes the package to
ApkgFilePath(file_path, job_id) ==
    LET input_dir == IF Dirname(file_path) = <<>> THEN <<".">> ELSE Dirname(file_path)
        output_decks_dir == PathJoin(input_dir, "anki_decks_output")
    IN  PathJoin(output_decks_dir, job_id \o ".apkg")

\* finish_qa_file(file_path).  The disk takes every write, so the package
\* is written whenever the code comes to write it.
finish_qa_file(file_path) ==
    LET name == Abspath(file_path)
        failed(error) == [tool |-> "finish_qa_file", error |-> error,
                          file_path |-> file_path, status |-> "error"]
    IN  /\ UNCHANGED <<created, service>>
        /\ IF name \notin DOMAIN files
           THEN /\ ret' = failed("Input JSON file not found.")
                /\ UNCHANGED files
           ELSE IF Loads(files[name]) = None
           THEN /\ ret' = failed("Invalid JSON format in input file.")
                /\ UNCHANGED files
           ELSE LET data == Loads(files[name])[1]
                    title == GetOr(data, "title", "Untitled Deck")
                    icon == GetOr(data, "icon", "")
                    qa_pairs == GetOr(data, "qa_pairs", <<>>)
                IN  IF Falsy(data, "job_id")
                    THEN /\ ret' = failed("job_id is missing in the JSON file.")
                         /\ UNCHANGED files
                    ELSE IF qa_pairs = <<>>
                    THEN /\ ret' = [tool |-> "finish_qa_file",
                                    message |-> "No QA pairs found. Anki deck generation skipped.",
                                    job_id |-> data.job_id,
                                    file_path |-> file_path,
                                    status |-> "success_no_cards"]
                         /\ UNCHANGED files
                    ELSE LET notes == AddNotes(qa_pairs, 0)
                             deck_title == DeckTitle(icon, title, data.job_id)
                             apkg_file_path == ApkgFilePath(file_path, data.job_id)
                         IN  IF Len(notes) = 0
                             THEN /\ ret' = [tool |-> "finish_qa_file",
                                             message |-> "No valid QA pairs found to create notes. Anki deck generation skipped.",
                                             job_id |-> data.job_id,
                                             file_path |-> file_path,
                                             status |-> "success_no_valid_cards"]
                                  /\ UNCHANGED files
                             ELSE /\ files' = (Abspath(apkg_file_path) :>
                                                 [kind |-> "apkg",
                                                  deck_title |-> deck_title,
                                                  job_id |-> data.job_id,
                                                  notes |-> notes]) @@ files
                                  /\ ret' = [tool |-> "finish_qa_file",
                                             message |-> "Anki deck '" \o deck_title
                                                            \o "' created successfully.",
                                             apkg_file_path |-> apkg_file_path,
                                             job_id |-> data.job_id,
                                             notes_added |-> Len(notes),
                                             status |-> "success"]

\* ------------------------------------------------------------- environments
\* What the remote model may return for a page: a text, or None for a raise.
Texts == { <<"a">>, <<SP, "b", NL>>, <<SP>> }
Answers == {Some(t) : t \in Texts} \cup {None}

\* Several clients submitting small documents to a responsive remote, all
\* within one reading of the clock.
ManyJobs ==
    [uploads |-> MaxJobs,
     docs |-> {EmptyBytes, Junk, Pdf(1)},
     delims |-> {<<DefaultDelim, DefaultDelim>>},
     answers |-> {Some(<<"a">>), None},
     hangs |-> FALSE,
     poppler |-> {"system"},
     ticks |-> 0]

\* One document of up to MaxPages pages, every delimiter pair, every answer.
OneJob ==
    [uploads |-> 1,
     docs |-> {Pdf(n) : n \in 0..MaxPages} \cup {Junk},
     delims |-> {<<DefaultDelim, DefaultDelim>>, <<<<>>, <<>>>>, <<<<"#">>, <<NL>>>>},
     answers |-> Answers,
     hangs |-> TRUE,
     poppler |-> {"/opt/homebrew/bin", "none"},
     ticks |-> MaxClock]

\* One document with more pages than MAX_WORKERS, the remote still working.
BigJob ==
    [uploads |-> 1,
     docs |-> {Pdf(MAX_WORKERS + 1)},
     delims |-> {<<DefaultDelim, DefaultDelim>>},
     answers |-> {},
     hangs |-> FALSE,
     poppler |-> {"system"},
     ticks |-> 0]

\* Two clients with different page delimiters, their jobs in progress at
\* the same time.
TwoClients ==
    [uploads |-> 2,
     docs |-> {Pdf(1)},
     delims |-> {<<DefaultDelim, DefaultDelim>>, <<<<"#">>, <<NL>>>>},
     answers |-> {Some(<<"a">>)},
     hangs |-> FALSE,
     poppler |-> {"system"},
     ticks |-> 0]

\* One document of up to MaxPages pages, or one that is not a PDF, sent to a
\* remote that answers, raises or never answers, while the clock ticks once.
Flaky ==
    [uploads |-> 1,
     docs |-> {Pdf(n) : n \in 0..MaxPages} \cup {Junk},
     delims |-> {<<DefaultDelim, DefaultDelim>>},
     answers |-> {Some(<<"a">>), None},
     hangs |-> TRUE,
     poppler |-> {"system"},
     ticks |-> 1]

\* the identifiers a client may ask about
QueryIds == DOMAIN jobs \cup {UnknownId}

\* the service before any request, the study tools not in use
InitWith(environments) ==
    /\ jobs = <<>>
    /\ task = <<>>
    /\ pages = <<>>
    /\ raster = <<>>
    /\ seen = <<>>
    /\ completed = <<>>
    /\ document = <<>>
    /\ clock = 0
    /\ resp = [op |-> "none"]
    /\ env \in environments
    /\ files = <<>>
    /\ ret = NoReturn
    /\ created = <<>>

Init == InitWith({ManyJobs, TwoClients, OneJob, BigJob})

Next ==
    \/ \E c \in env.docs, d \in env.delims : upload_pdf(c, d[1], d[2])
    \/ \E j \in DOMAIN jobs : process_pdf_background(j)
    \/ \E j \in DOMAIN jobs : process_pdf(j)
    \/ \E j \in DOMAIN jobs : \E i \in 1..Len(pages[j]) : PageStart(j, i)
    \/ \E j \in DOMAIN jobs : \E i \in 1..Len(pages[j]) :
          \E a \in env.answers : PageReturn(j, i, a)
    \/ \E j \in DOMAIN jobs : \E i \in 1..Len(pages[j]) : PageHang(j, i)
    \/ \E j \in DOMAIN jobs : GatherDone(j)
    \/ \E j \in QueryIds : get_job_status(j)
    \/ \E j \in QueryIds : get_job_result_markdown(j)
    \/ Tick

Spec == Init /\ [][Next]_vars

\* ----------------------------------------------- study tools: client and disk
\* the pairs a client appends: complete, with an empty answer, with no answer
PairKinds ==
    { [question |-> "q", answer |-> "a"],
      [question |-> "r", answer |-> ""],
      [question |-> "s"] }

\* the content lists of write_to_qa_file
Contents == UNION {[1..n -> PairKinds] : n \in 0..MaxPairs}

\* a file of the user's own in the working directory, named by a relative path
Notes == <<"notes.json">>

\* A client that creates a deck from a title, an icon and a job id, each
\* possibly empty, on an empty disk, and works on the file it was given.
Author(title, icon, job_id) ==
    [titles |-> {title}, icons |-> {icon}, job_ids |-> {job_id},
     paths |-> {}, disk |-> <<>>]

\* A client that works on the user's own file, which is missing or holds the
\* given text.
Owner(disk) ==
    [titles |-> {}, icons |-> {}, job_ids |-> {}, paths |-> {Notes}, disk |-> disk]

\* what the user's file may hold when the server starts: text that is not
\* JSON, blank text, an object without qa_pairs, a hand-written deck without
\* an icon
UserTexts ==
    { RawText(<<"{">>),
      RawText(<<SP, NL>>),
      Dumps([job_id |-> "j"], "compact"),
      Dumps([title |-> "t", job_id |-> "j",
             qa_pairs |-> <<[question |-> "q", answer |-> "a"]>>], "compact") }

Sessions ==
    { Author(title, icon, job_id) :
        title \in {"", "t"}, icon \in {"", "i"}, job_id \in {"", "j"} }
    \cup { Owner(<<>>) }
    \cup { Owner(Abspath(Notes) :> text) : text \in UserTexts }

\* the paths a client passes: those create_qa_file returned, and the user's
ClientPaths == DOMAIN created \cup env.paths

\* the tools in use, the parsing service idle
ToolsInit ==
    /\ jobs = <<>>
    /\ task = <<>>
    /\ pages = <<>>
    /\ raster = <<>>
    /\ seen = <<>>
    /\ completed = <<>>
    /\ document = <<>>
    /\ clock = 0
    /\ resp = [op |-> "none"]
    /\ env \in Sessions
    /\ files = env.disk
    /\ ret = NoReturn
    /\ created = <<>>

ToolsNext ==
    \/ \E title \in env.titles, icon \in env.icons, job_id \in env.job_ids :
          create_qa_file(title, icon, job_id)
    \/ \E file_path \in ClientPaths, content \in Contents :
          write_to_qa_file(file_path, content)
    \/ \E file_path \in ClientPaths : finish_qa_file(file_path)

ToolsSpec == ToolsInit /\ [][ToolsNext]_vars

\* ==================================================================== claims
\* a query answered for job j: the last response is a status or markdown
\* response about j that reported its status
Answered(j) ==
    /\ resp.op \in {"status", "markdown"}
    /\ resp.id = j
    /\ resp.code \in {200, 400}

\* C1: once a status or result query has reported SUCCESS or FAILED for a
\* job, no later query on that job reports PENDING or PROCESSING.
C1_StatusMonotonic ==
    [][\A j \in DOMAIN seen :
          seen[j] \in Terminal => seen'[j] \in Terminal]_vars

\* a job was reported terminal and has then been queried again
C1_Witness ==
    \E j \in DOMAIN seen :
        /\ seen[j] \in Terminal
        /\ Answered(j)
        /\ resp.op = "markdown"

\* C2: a job whose status is terminal has exactly one of result and error:
\* SUCCESS has a result and no error, FAILED an error and no result, in the
\* job store at every moment a query can run and in every status response.
ExactlyOne(status, result, error) ==
    /\ status = SUCCESS => result # None /\ error = None
    /\ status = FAILED => error # None /\ result = None

C2_ResultXorError ==
    /\ \A j \in DOMAIN jobs :
          ExactlyOne(jobs[j].status, Get(jobs[j], "result"), Get(jobs[j], "error"))
    /\ (resp.op = "status" /\ resp.code = 200) =>
          ExactlyOne(resp.body.status, resp.body.result, resp.body.error)

\* a status query has answered for a FAILED job
C2_Witness ==
    /\ resp.op = "status"
    /\ resp.code = 200
    /\ resp.body.status = FAILED
    /\ resp.body.error # None

\* C3: a job is created in PENDING; its status only ever changes from PENDING
\* to PROCESSING and from PROCESSING to SUCCESS or FAILED; a terminal status
\* is never overwritten.
C3_Lifecycle ==
    [][\A j \in DOMAIN jobs' :
          IF j \notin DOMAIN jobs
          THEN jobs'[j].status = PENDING
          ELSE \/ jobs'[j].status = jobs[j].status
               \/ jobs[j].status = PENDING /\ jobs'[j].status = PROCESSING
               \/ jobs[j].status = PROCESSING /\ jobs'[j].status \in Terminal]_vars

\* one job ended in SUCCESS and another in FAILED
C3_Witness ==
    \E j, k \in DOMAIN jobs :
        /\ jobs[j].status = SUCCESS
        /\ jobs[k].status = FAILED
        /\ task[j] = "done"
        /\ task[k] = "done"

\* C4 (as claimed): a job in a terminal state no longer holds file_content.
C4_BytesDiscarded ==
    \A j \in DOMAIN jobs :
        jobs[j].status \in Terminal => "file_content" \notin DOMAIN jobs[j]

\* the extraction calls of job j that are awaiting the remote
InFlight(j) ==
    Cardinality({i \in 1..Len(pages[j]) : pages[j][i].st \in {"inflight", "hung"}})

\* C5 (as claimed): a job never has more than MAX_WORKERS extraction calls
\* in flight.
C5_InFlightBounded ==
    \A j \in DOMAIN jobs : InFlight(j) <= MAX_WORKERS

\* Fair scheduling of one job: the event loop runs every task that can run,
\* and a remote call that is going to be answered is answered.
FairInit == InitWith({OneJob})
Fairness ==
    \A j \in 1..MaxJobs :
        /\ WF_vars(process_pdf_background(j))
        /\ WF_vars(process_pdf(j))
        /\ WF_vars(GatherDone(j))
        /\ \A i \in 1..MaxPages :
              /\ WF_vars(PageStart(j, i))
              /\ WF_vars(\E a \in env.answers : PageReturn(j, i, a))
FairSpec == FairInit /\ [][Next]_vars /\ Fairness

\* C6 (as claimed): an extraction call that never responds is eventually
\* given up, so its job still reaches a terminal state.
C6_HungCallTimesOut ==
    \A j \in 1..MaxJobs : \A i \in 1..MaxPages :
        (j \in DOMAIN jobs /\ i <= Len(pages[j]) /\ pages[j][i].st = "hung")
            ~> (j \in DOMAIN jobs /\ jobs[j].status \in Terminal)

\* the number of characters of doc that precede block i when the blocks are
\* laid out one after the other with one separator character between them
RECURSIVE Offset(_, _)
Offset(blocks, i) ==
    IF i = 1 THEN 0 ELSE Offset(blocks, i - 1) + Len(blocks[i - 1]) + 1

\* doc is exactly the blocks in their order, one newline between neighbours
LaidOut(doc, blocks) ==
    LET n == Len(blocks)
    IN  /\ n >= 1
        /\ Len(doc) = Offset(blocks, n) + Len(blocks[n])
        /\ \A i \in 1..n :
              /\ SubSeq(doc, Offset(blocks, i) + 1,
                        Offset(blocks, i) + Len(blocks[i])) = blocks[i]
              /\ i < n => doc[Offset(blocks, i) + Len(blocks[i]) + 1] = NL

\* s without its leading and trailing whitespace, said without stripping:
\* the stretch of s with only whitespace before and after it that neither
\* starts nor ends with whitespace
Trimmed(s) ==
    LET bounds == CHOOSE b \in (1..(Len(s) + 1)) \X (0..Len(s)) :
                     /\ b[1] <= b[2] + 1
                     /\ \A k \in 1..(b[1] - 1) : s[k] \in Whitespace
                     /\ \A k \in (b[2] + 1)..Len(s) : s[k] \in Whitespace
                     /\ b[1] <= b[2] =>
                           s[b[1]] \notin Whitespace /\ s[b[2]] \notin Whitespace
    IN  SubSeq(s, bounds[1], bounds[2])

\* C7: the document of a job with N >= 1 pages is assembled only when all N
\* page tasks have ended, and it lists their outputs in page index order
\* whatever the order in which they ended.
C7_IndexOrder ==
    \A j \in DOMAIN jobs :
        (document[j] # None /\ Len(pages[j]) >= 1) =>
            /\ \A i \in 1..Len(pages[j]) : pages[j][i].st = "done"
            /\ LaidOut(document[j][1],
                       [i \in 1..Len(pages[j]) |-> pages[j][i].out])

\* a document was assembled from two pages with different outputs of which
\* the second ended first
C7_Witness ==
    \E j \in DOMAIN jobs :
        /\ document[j] # None
        /\ Len(pages[j]) >= 2
        /\ completed[j][1] = 2
        /\ pages[j][1].out # pages[j][2].out

\* every page of job j was answered with a text
AllSucceeded(j) ==
    \A i \in 1..Len(pages[j]) :
        pages[j][i].st = "done" /\ pages[j][i].answer # None

\* C8: when all N >= 1 extractions succeed, the document is the strings
\* prefix + trim(text_i) + suffix for i = 0..N-1 in order, one newline
\* between consecutive pages: exactly N page blocks.
C8_Assembly ==
    \A j \in DOMAIN jobs :
        (document[j] # None /\ Len(pages[j]) >= 1 /\ AllSucceeded(j)) =>
            LaidOut(document[j][1],
                    [i \in 1..Len(pages[j]) |->
                        jobs[j].page_prefix
                            \o Trimmed(pages[j][i].answer[1])
                            \o jobs[j].page_suffix])

\* a two-page document was assembled from texts that had whitespace to trim
C8_Witness ==
    \E j \in DOMAIN jobs :
        /\ document[j] # None
        /\ Len(pages[j]) >= 2
        /\ AllSucceeded(j)
        /\ pages[j][1].answer[1] = <<SP, "b", NL>>
        /\ jobs[j].page_prefix # <<>>

\* the text that stands for failed page number n (1-based)
Placeholder(n) == ErrorPageLit \o Str(n) \o <<"]">>

\* C9: when the extraction of one, several or all of the N >= 1 pages
\* fails, the job still ends in SUCCESS and its result has N page blocks in
\* index order, each failed page i (0-based) replaced by
\* prefix + placeholder naming page i+1 + suffix.
C9_PageFailureKeepsJob ==
    \A j \in DOMAIN jobs :
        (/\ task[j] = "done"
         /\ Len(pages[j]) >= 1
         /\ \E i \in 1..Len(pages[j]) : pages[j][i].answer = None) =>
            /\ jobs[j].status = SUCCESS
            /\ jobs[j].result # None
            /\ LaidOut(jobs[j].result[1].markdown,
                       [i \in 1..Len(pages[j]) |->
                           IF pages[j][i].answer = None
                           THEN jobs[j].page_prefix \o Placeholder(i)
                                    \o jobs[j].page_suffix
                           ELSE pages[j][i].out])

\* a job ended after its second page failed and its first did not
C9_Witness ==
    \E j \in DOMAIN jobs :
        /\ task[j] = "done"
        /\ Len(pages[j]) >= 2
        /\ pages[j][1].answer # None
        /\ pages[j][2].answer = None

\* doc has no character that is not whitespace
Blank(doc) == \A k \in 1..Len(doc) : doc[k] \in Whitespace

\* C10: a job whose document rasterizes to zero pages ends FAILED with a
\* non-empty error message, and no job is SUCCESS with an empty or
\* whitespace-only result document.
C10_NoEmptySuccess ==
    \A j \in DOMAIN jobs :
        /\ (task[j] = "done" /\ Len(pages[j]) = 0) =>
              /\ jobs[j].status = FAILED
              /\ jobs[j].error # None
              /\ jobs[j].error[1] # ""
        /\ jobs[j].status = SUCCESS =>
              /\ jobs[j].result # None
              /\ ~Blank(jobs[j].result[1].markdown)

\* a document was rasterized to zero pages and its job has ended
C10_WitnessZeroPages ==
    \E j \in DOMAIN jobs :
        /\ task[j] = "done"
        /\ raster[j] >= 1
        /\ document[j] = Some(<<>>)
        /\ jobs[j].file_content = Pdf(0)

\* C11: the Markdown result query returns the assembled document if and only
\* if the job exists and is SUCCESS; for an existing job in another state it
\* answers 400 with a detail naming that status and the recorded error, and
\* no document; for an unknown identifier it answers 404.
C11_MarkdownQuery ==
    [][\A id \in QueryIds :
          get_job_result_markdown(id) =>
             /\ resp'.op = "markdown" /\ resp'.id = id
             /\ resp'.code = 200 <=> (id \in DOMAIN jobs /\ jobs[id].status = SUCCESS)
             /\ resp'.code = 200 => resp'.body = document[id][1]
             /\ id \notin DOMAIN jobs => resp'.code = 404
             /\ (id \in DOMAIN jobs /\ jobs[id].status # SUCCESS) =>
                   /\ resp'.code = 400
                   /\ "body" \notin DOMAIN resp'
                   /\ resp'.detail =
                         IF jobs[id].error # None
                         THEN "Job status is " \o jobs[id].status
                                  \o ". Error: " \o jobs[id].error[1]
                         ELSE "Job status is " \o jobs[id].status \o ". "]_vars

\* the result query has refused a FAILED job that has an error recorded
C11_Witness ==
    /\ resp.op = "markdown"
    /\ resp.code = 400
    /\ resp.id \in DOMAIN jobs
    /\ jobs[resp.id].status = FAILED
    /\ jobs[resp.id].error # None

\* C12: the status query answers 404 exactly for unknown identifiers; for
\* every existing job, whatever its state, it answers 200 with the job's
\* current id, status, created_at, updated_at, result and error.
C12_StatusQuery ==
    [][\A id \in QueryIds :
          get_job_status(id) =>
             /\ resp'.op = "status" /\ resp'.id = id
             /\ resp'.code = 404 <=> id \notin DOMAIN jobs
             /\ id \in DOMAIN jobs =>
                   /\ resp'.code = 200
                   /\ resp'.body.id = id
                   /\ resp'.body.status = jobs[id].status
                   /\ resp'.body.created_at = jobs[id].created_at
                   /\ resp'.body.updated_at = jobs[id].updated_at
                   /\ resp'.body.result = jobs[id].result
                   /\ resp'.body.error = jobs[id].error]_vars

\* the status query has answered 200 for a job that is FAILED
C12_Witness ==
    /\ resp.op = "status"
    /\ resp.code = 200
    /\ resp.id \in DOMAIN jobs
    /\ resp.body.id = resp.id
    /\ jobs[resp.id].status = FAILED
    /\ resp.body.status = FAILED

\* an upload request is handled
Uploads == \E c \in env.docs, d \in env.delims : upload_pdf(c, d[1], d[2])

\* C13: when upload_pdf returns the job identifier, the job record exists,
\* its background task is only scheduled, and no rasterization or extraction
\* of that job has happened: the job is not terminal.
C13_ReturnsBeforeProcessing ==
    [][(Uploads /\ resp'.code = 200) =>
          /\ resp'.id \in DOMAIN jobs'
          /\ resp'.id \notin DOMAIN jobs
          /\ task'[resp'.id] = "scheduled"
          /\ raster'[resp'.id] = 0
          /\ pages'[resp'.id] = <<>>
          /\ document'[resp'.id] = None
          /\ jobs'[resp'.id].status \notin Terminal]_vars

\* an upload has just been accepted: its response is the last one sent and
\* its task has not run
C13_Witness ==
    /\ resp.op = "upload"
    /\ resp.code = 200
    /\ task[resp.id] = "scheduled"
    /\ jobs[resp.id].status = PENDING

\* C14: an upload with empty content is answered with an error in the same
\* request and creates no job: the job store is unchanged and no background
\* task is started.
C14_EmptyUploadRejected ==
    [][\A d \in env.delims :
          upload_pdf(EmptyBytes, d[1], d[2]) =>
             /\ resp'.op = "upload"
             /\ resp'.code >= 400
             /\ jobs' = jobs
             /\ task' = task]_vars

\* an empty upload was refused after another upload had been accepted
C14_Witness ==
    /\ resp.op = "upload"
    /\ resp.code = 500
    /\ resp.id \notin DOMAIN jobs
    /\ DOMAIN jobs # {}

\* the task of job j ended because rasterization failed: conversions were
\* tried and process_pdf returned no document
RasterFailed(j) ==
    /\ task[j] = "done"
    /\ raster[j] >= 1
    /\ document[j] = None

\* C15: when rasterization of a job's document fails, the job is FAILED with
\* an error message that describes the cause, and no extraction call is made
\* for it.
C15_RasterFailureIsFatal ==
    \A j \in DOMAIN jobs :
        RasterFailed(j) =>
            /\ jobs[j].status = FAILED
            /\ jobs[j].error =
                  Some("Error processing PDF: Error converting PDF to images: conversion failed")
            /\ pages[j] = <<>>

\* the job of an upload that is not a PDF has ended
C15_Witness ==
    \E j \in DOMAIN jobs :
        /\ RasterFailed(j)
        /\ jobs[j].file_content = Junk

Queries ==
    \E id \in QueryIds : get_job_status(id) \/ get_job_result_markdown(id)

\* C17: the status query and the Markdown result query leave the whole job
\* store unchanged, for known and unknown identifiers and every job state.
C17_QueriesReadOnly ==
    [][Queries => jobs' = jobs]_vars

\* an unknown identifier was asked about while the store held a job that had
\* already been reported terminal to a client
C17_Witness ==
    /\ resp.op \in {"status", "markdown"}
    /\ resp.code = 404
    /\ \E j \in DOMAIN jobs : seen[j] \in Terminal

\* C18 (as claimed): the status in the upload response is the status stored
\* in the job record at that moment (checked while the background task has
\* not yet run, so the record is still as upload_pdf left it).
C18_ResponseMatchesRecord ==
    (resp.op = "upload" /\ resp.code = 200 /\ task[resp.id] = "scheduled") =>
        resp.body.status = jobs[resp.id].status

\* C19: created_at never changes, updated_at never decreases and is never
\* before created_at, and every change of status writes the time of the
\* change into updated_at.
C19_Timestamps ==
    [][\A j \in DOMAIN jobs' :
          /\ jobs'[j].updated_at >= jobs'[j].created_at
          /\ j \notin DOMAIN jobs =>
                jobs'[j].created_at = clock /\ jobs'[j].updated_at = clock
          /\ j \in DOMAIN jobs =>
                /\ jobs'[j].created_at = jobs[j].created_at
                /\ jobs'[j].updated_at >= jobs[j].updated_at
                /\ jobs'[j].status # jobs[j].status =>
                      jobs'[j].updated_at = clock]_vars

\* a job has ended at a later time than it was created
C19_Witness ==
    \E j \in DOMAIN jobs :
        /\ jobs[j].status \in Terminal
        /\ jobs[j].updated_at > jobs[j].created_at

\* how far the background task of a job has come
TaskRank(position) ==
    CASE position = "scheduled" -> 0
      [] position = "reading" -> 1
      [] position = "gathering" -> 2
      [] position = "done" -> 3

\* C20: each job is processed once: its task only moves forward and is never
\* started again (a FAILED job is not re-run), a document of N pages gets N
\* page tasks, and each page gets exactly one extraction call, failed or not.
C20_ProcessedOnce ==
    [][\A j \in DOMAIN jobs :
          /\ TaskRank(task'[j]) >= TaskRank(task[j])
          /\ (task[j] = "reading" /\ task'[j] = "gathering") =>
                Len(pages'[j]) = jobs[j].file_content.npages
          /\ pages[j] # <<>> => Len(pages'[j]) = Len(pages[j])
          /\ \A i \in 1..Len(pages'[j]) :
                /\ pages'[j][i].calls <= 1
                /\ pages'[j][i].st # "created" => pages'[j][i].calls = 1
          /\ (task'[j] = "done" /\ pages'[j] # <<>>) =>
                \A i \in 1..Len(pages'[j]) : pages'[j][i].calls = 1]_vars

\* a two-page job has ended with a failed page, one call made for each page
C20_Witness ==
    \E j \in DOMAIN jobs :
        /\ task[j] = "done"
        /\ Len(pages[j]) >= 2
        /\ \E i \in 1..Len(pages[j]) : pages[j][i].answer = None
        /\ \A i \in 1..Len(pages[j]) : pages[j][i].calls = 1

\* a step of the background task of job a or of one of its page tasks
Processes(a) ==
    \/ process_pdf_background(a)
    \/ process_pdf(a)
    \/ GatherDone(a)
    \/ \E i \in 1..Len(pages[a]) :
          PageStart(a, i) \/ \E answer \in env.answers : PageReturn(a, i, answer)

\* something of job b is different after the step
Touched(b) ==
    \/ jobs'[b] # jobs[b]
    \/ task'[b] # task[b]
    \/ pages'[b] # pages[b]
    \/ document'[b] # document[b]

\* C21: jobs are isolated.  An accepted upload adds exactly one record, under
\* an identifier no record had, and leaves every existing job as it was; a
\* step that changes anything of job b is not a processing step of another
\* job a; and the result of a SUCCESS job is the join of its own page
\* outputs, each built from its own page's answer with its own prefix and
\* suffix.
C21_JobsIsolated ==
    /\ [](\A j \in DOMAIN jobs :
             jobs[j].status = SUCCESS =>
                /\ Len(pages[j]) >= 1
                /\ LaidOut(jobs[j].result[1].markdown,
                           [i \in 1..Len(pages[j]) |->
                               IF pages[j][i].answer = None
                               THEN jobs[j].page_prefix \o Placeholder(i)
                                        \o jobs[j].page_suffix
                               ELSE jobs[j].page_prefix
                                        \o Trimmed(pages[j][i].answer[1])
                                        \o jobs[j].page_suffix]))
    /\ [][/\ DOMAIN jobs \subseteq DOMAIN jobs'
          /\ (resp'.op = "upload" /\ resp'.code = 200 /\ Uploads) =>
                /\ resp'.id \notin DOMAIN jobs
                /\ DOMAIN jobs' = DOMAIN jobs \cup {resp'.id}
                /\ \A b \in DOMAIN jobs : ~Touched(b)
          /\ \A b \in DOMAIN jobs :
                Touched(b) => \A a \in DOMAIN jobs \ {b} : ~Processes(a)]_vars

\* one job has ended in SUCCESS while another job, with other delimiters,
\* was in the middle of its processing with a page already extracted
C21_Witness ==
    \E a, b \in DOMAIN jobs :
        /\ a # b
        /\ jobs[a].status = SUCCESS
        /\ task[b] = "gathering"
        /\ pages[b][1].st = "done"
        /\ jobs[a].page_prefix # jobs[b].page_prefix
        /\ jobs[a].result[1].markdown # pages[b][1].out

\* C22: a SUCCESS job always holds a result with a markdown document that is
\* neither empty nor blank, so the result query never answers 500 "Job
\* completed but no markdown result found", wherever the queries fall
\* between the steps of the processing task.
C22_SuccessHasMarkdown ==
    /\ \A j \in DOMAIN jobs :
          jobs[j].status = SUCCESS =>
             /\ "result" \in DOMAIN jobs[j]
             /\ jobs[j].result # None
             /\ "markdown" \in DOMAIN jobs[j].result[1]
             /\ Len(jobs[j].result[1].markdown) >= 1
             /\ \E k \in 1..Len(jobs[j].result[1].markdown) :
                   jobs[j].result[1].markdown[k] \notin Whitespace
    /\ ~(resp.op = "markdown" /\ resp.code = 500)

\* the result query has returned the document of a job whose only extracted
\* text was blank: the delimiters alone keep the document from being blank
C22_Witness ==
    /\ resp.op = "markdown"
    /\ resp.code = 200
    /\ jobs[resp.id].status = SUCCESS
    /\ \A i \in 1..Len(pages[resp.id]) : pages[resp.id][i].answer = Some(<<SP>>)
    /\ resp.body = jobs[resp.id].result[1].markdown

\* Fair scheduling of one job with a remote that may fail or stall, and of
\* two jobs in progress at the same time.
LiveInit == InitWith({Flaky, TwoClients})
LiveSpec == LiveInit /\ [][Next]_vars /\ Fairness

\* an extraction call of job j that the remote never answers
Unanswered(j) ==
    \E i \in 1..Len(pages[j]) : pages[j][i].st = "hung"

\* C23: under fair scheduling every accepted job eventually is SUCCESS or
\* FAILED, unless one of its extraction calls is never answered (the case
\* the claim sets aside); no such job stays PENDING or PROCESSING forever.
C23_EveryJobEnds ==
    \A j \in 1..MaxJobs :
        (j \in DOMAIN jobs /\ jobs[j].status \in {PENDING, PROCESSING})
            ~> (j \in DOMAIN jobs
                /\ (jobs[j].status \in Terminal \/ Unanswered(j)))

\* two jobs, each reported PROCESSING to a client, have both ended with none
\* of their calls left unanswered
C23_Witness ==
    /\ Cardinality(DOMAIN jobs) = 2
    /\ \A j \in DOMAIN jobs :
          /\ jobs[j].status \in Terminal
          /\ task[j] = "done"
          /\ seen[j] = PROCESSING
          /\ ~Unanswered(j)

\* the lists one after the other
RECURSIVE Concat(_)
Concat(lists) == IF lists = <<>> THEN <<>> ELSE Head(lists) \o Concat(Tail(lists))

\* C24: a file made by create_qa_file holds, after any write_to_qa_file
\* calls on it, the title, icon and job_id it was created with and, as
\* qa_pairs, the content lists of those calls one after the other in call
\* order: nothing lost, reordered or doubled.
C24_AppendsAccumulate ==
    \A path \in DOMAIN created :
        /\ path \in DOMAIN files
        /\ files[path].kind = "json"
        /\ DOMAIN files[path].data = {"title", "icon", "job_id", "qa_pairs"}
        /\ files[path].data.title = created[path].title
        /\ files[path].data.icon = created[path].icon
        /\ files[path].data.job_id = created[path].job_id
        /\ files[path].data.qa_pairs = Concat(created[path].appended)

\* two calls have appended different lists to a created file, the second
\* one two pairs
C24_Witness ==
    \E path \in DOMAIN created :
        /\ ret.tool = "write_to_qa_file"
        /\ Len(created[path].appended) = 2
        /\ Len(created[path].appended[2]) = 2
        /\ created[path].appended[1][1] # created[path].appended[2][1]
        /\ created[path].title # ""

\* C25: finish_qa_file writes a package exactly when the file is a JSON
\* object with a non-empty job_id and at least one pair whose question and
\* answer are both non-empty; it then returns status "success" with
\* notes_added the number of those pairs and the package holds one note for
\* each.  For a missing file, text that is not JSON or a missing job_id it
\* returns "error", for no pairs "success_no_cards", for no valid pair
\* "success_no_valid_cards", and writes nothing.  The input file is never
\* changed, nor any file but the package.
C25_FinishWritesOnlyValidDecks ==
    [][\A file_path \in ClientPaths :
          finish_qa_file(file_path) =>
             LET name == Abspath(file_path)
                 is_json == name \in DOMAIN files /\ files[name].kind = "json"
                 has_id == /\ is_json
                           /\ "job_id" \in DOMAIN files[name].data
                           /\ files[name].data.job_id # ""
                 pairs == IF is_json /\ "qa_pairs" \in DOMAIN files[name].data
                          THEN files[name].data.qa_pairs ELSE <<>>
                 valid == {i \in 1..Len(pairs) :
                              /\ {"question", "answer"} \subseteq DOMAIN pairs[i]
                              /\ pairs[i].question # ""
                              /\ pairs[i].answer # ""}
             IN  /\ ret'.tool = "finish_qa_file"
                 /\ ret'.status = "success" <=> (has_id /\ valid # {})
                 /\ ret'.status = "success" =>
                       LET package == Abspath(ret'.apkg_file_path)
                       IN  /\ ret'.notes_added = Cardinality(valid)
                           /\ package # name
                           /\ package \in DOMAIN files'
                           /\ files'[package].kind = "apkg"
                           /\ Len(files'[package].notes) = Cardinality(valid)
                           /\ \A i \in valid :
                                 \E k \in 1..Len(files'[package].notes) :
                                    files'[package].notes[k] = i - 1
                           /\ DOMAIN files' = DOMAIN files \cup {package}
                           /\ \A other \in DOMAIN files \ {package} :
                                 files'[other] = files[other]
                 /\ ret'.status # "success" =>
                       /\ files' = files
                       /\ ret'.status =
                             IF ~has_id THEN "error"
                             ELSE IF pairs = <<>> THEN "success_no_cards"
                             ELSE "success_no_valid_cards"
                 /\ name \in DOMAIN files =>
                       name \in DOMAIN files' /\ files'[name] = files[name]]_vars

\* a deck was written from a created file of three pairs of which the
\* second is not valid
C25_Witness ==
    /\ ret.tool = "finish_qa_file"
    /\ ret.status = "success"
    /\ ret.notes_added = 2
    /\ \E path \in DOMAIN created :
          /\ path = Abspath(<<"output_qa_file__j.json">>)
          /\ Len(files[path].data.qa_pairs) = 3
          /\ files[Abspath(ret.apkg_file_path)].notes = <<0, 2>>

====
